---- MODULE Spec2Model ----
(***************************************************************************)
(* Expense tracker (src/src/App.jsx): the transaction store (loadInitial-  *)
(* State, transactionReducer, the storage listener) and the handlers that  *)
(* dispatch to it (AddTransaction.handleSubmit, TransactionList.           *)
(* handleDelete), over a localStorage shared by the tabs of one origin.    *)
(*                                                                         *)
(* Text is a sequence of one-character strings; a stored value is a        *)
(* sequence of JSON tokens, written by JSONStringify and read back by      *)
(* JSONParse.  Amounts are whole currency units; a date is the day number  *)
(* of the clock reading (the ISO text YYYY-MM-DD names exactly one day).   *)
(*                                                                         *)
(* In Spec, SpecTabs and SpecReducer the fields of the add form (desc,     *)
(* amount, category) are inputs of the submit step: onChange lets the user *)
(* put any text there before a submit, so the reset after a successful one *)
(* constrains nothing.  SpecForm keeps them as the state they are, with    *)
(* the messages validateForm sets.                                         *)
(*                                                                         *)
(* The calendar is scaled down (DaysPerMonth, MonthsPerYear).  The local   *)
(* date, which getMonth() and getFullYear() read, is the UTC date or the   *)
(* day before or after it, as the time zone and the time of day make it.   *)
(* Quotients are kept exact, as numerator and denominator.                 *)
(*                                                                         *)
(* Spec is a session in one tab, SpecTabs two tabs on the same storage,    *)
(* SpecReducer the reducer under any dispatched action, SpecForm the add   *)
(* form, SpecBudget the budget widget, and SpecDash, SpecRecent and        *)
(* SpecChart the values the dashboard, the recent-activity view and the    *)
(* chart compute in a render of a given list.                              *)
(***************************************************************************)
EXTENDS Integers, Sequences, FiniteSets, TLC

\* ---------------------------------------------------------------- bounds
MaxClock == 1
MaxLen == 2
TicksPerDay == 1
\* the calendar, scaled down
DaysPerMonth == 2
MonthsPerYear == 2
\* the longest list the recent-activity view is given
MaxRecentLen == 6
\* the longest list the chart is given
MaxChartLen == 3

\* the browser tabs of the origin; tab 1 is the tab a session is about
Tabs == {1, 2}

\* ------------------------------------------------------------------ text
CatFood == <<"f", "o", "o", "d">>
CatOther == <<"o", "t", "h", "e", "r">>
CatHealth == <<"h", "e", "a", "l", "t", "h">>
\* a property that is not there (undefined)
UNDEF == <<"undefined">>

Digits == {"0", "1", "2", "3", "4", "5", "6", "7", "8", "9"}

DigitVal(c) ==
  CASE c = "0" -> 0 [] c = "1" -> 1 [] c = "2" -> 2 [] c = "3" -> 3
    [] c = "4" -> 4 [] c = "5" -> 5 [] c = "6" -> 6 [] c = "7" -> 7
    [] c = "8" -> 8 [] OTHER -> 9

RECURSIVE TrimStart(_)
TrimStart(s) ==
  IF s # <<>> /\ Head(s) = " " THEN TrimStart(Tail(s)) ELSE s

RECURSIVE TrimEnd(_)
TrimEnd(s) ==
  IF s # <<>> /\ s[Len(s)] = " " THEN TrimEnd(SubSeq(s, 1, Len(s) - 1)) ELSE s

\* String.prototype.trim
Trim(s) == TrimEnd(TrimStart(s))

\* ------------------------------------------------------------ JS values
\* a transaction object; category may be UNDEF or the empty text
Txn(id, desc, amount, date, category) ==
  [id |-> id, desc |-> desc, amount |-> amount, date |-> date, category |-> category]

ArrayVal(items) == [type |-> "array", items |-> items]
NullVal == [type |-> "null", items |-> <<>>]
NumberVal == [type |-> "number", items |-> <<>>]
StringVal == [type |-> "string", items |-> <<>>]
ObjectVal == [type |-> "object", items |-> <<>>]

IsArray(v) == v.type = "array"

\* ------------------------------------------------------------ JSON text
Tok(k) == [k |-> k, s |-> "", cs |-> <<>>, n |-> 0]
KeyTok(name) == [k |-> "key", s |-> name, cs |-> <<>>, n |-> 0]
NumTok(n) == [k |-> "num", s |-> "", cs |-> <<>>, n |-> n]
StrTok(cs) == [k |-> "str", s |-> "", cs |-> cs, n |-> 0]
\* the ISO date text of day n
DateTok(n) == [k |-> "str", s |-> "date", cs |-> <<>>, n |-> n]

\* a faulty variant: the category is not written
StringifyTxnNoCategory(t) ==
  <<Tok("{"), KeyTok("id"), NumTok(t.id), KeyTok("desc"), StrTok(t.desc),
    KeyTok("amount"), NumTok(t.amount), KeyTok("date"), DateTok(t.date), Tok("}")>>

\* JSON.stringify of one transaction: a property whose value is undefined
\* is left out
StringifyTxn(t) ==
  <<Tok("{"), KeyTok("id"), NumTok(t.id), KeyTok("desc"), StrTok(t.desc),
    KeyTok("amount"), NumTok(t.amount), KeyTok("date"), DateTok(t.date)>>
  \o (IF t.category = UNDEF THEN <<>> ELSE <<KeyTok("category"), StrTok(t.category)>>)
  \o <<Tok("}")>>

RECURSIVE StringifyItems(_)
StringifyItems(items) ==
  IF items = <<>> THEN <<>>
  ELSE StringifyTxn(Head(items)) \o StringifyItems(Tail(items))

\* JSON.stringify(newState) for a list
JSONStringify(items) == <<Tok("[")>> \o StringifyItems(items) \o <<Tok("]")>>

\* the index of the "}" closing the object opened at i, 0 when there is none
RECURSIVE ObjectEnd(_, _)
ObjectEnd(text, i) ==
  IF i > Len(text) THEN 0
  ELSE IF text[i].k = "}" THEN i
  ELSE IF text[i].k = "key" /\ i < Len(text) /\ text[i + 1].k \in {"num", "str", "null"}
       THEN ObjectEnd(text, i + 2)
  ELSE 0

\* the value of property name in the object text[from..to], dflt when absent
RECURSIVE Property(_, _, _, _, _)
Property(text, from, to, name, dflt) ==
  IF from >= to THEN dflt
  ELSE IF text[from].s = name
       THEN (IF text[from + 1].k = "num" \/ text[from + 1].s = "date"
             THEN text[from + 1].n ELSE text[from + 1].cs)
  ELSE Property(text, from + 2, to, name, dflt)

\* the objects of text[i..], as transactions; ok is FALSE on a syntax error
RECURSIVE ParseItems(_, _)
ParseItems(text, i) ==
  IF i = Len(text) /\ text[i].k = "]" THEN [ok |-> TRUE, items |-> <<>>]
  ELSE IF i >= Len(text) \/ text[i].k # "{" THEN [ok |-> FALSE, items |-> <<>>]
  ELSE LET e == ObjectEnd(text, i + 1)
           rest == ParseItems(text, e + 1)
           t == Txn(Property(text, i + 1, e, "id", 0),
                    Property(text, i + 1, e, "desc", UNDEF),
                    Property(text, i + 1, e, "amount", 0),
                    Property(text, i + 1, e, "date", 0),
                    Property(text, i + 1, e, "category", UNDEF))
       IN IF e = 0 \/ ~rest.ok THEN [ok |-> FALSE, items |-> <<>>]
          ELSE [ok |-> TRUE, items |-> <<t>> \o rest.items]

\* JSON.parse: ok is FALSE where it throws a SyntaxError
JSONParse(text) ==
  IF text = <<>> THEN [ok |-> FALSE, val |-> NullVal]
  ELSE IF Len(text) = 1 /\ text[1].k = "null" THEN [ok |-> TRUE, val |-> NullVal]
  ELSE IF Len(text) = 1 /\ text[1].k = "num" THEN [ok |-> TRUE, val |-> NumberVal]
  ELSE IF Len(text) = 1 /\ text[1].k = "str" THEN [ok |-> TRUE, val |-> StringVal]
  ELSE IF text[1].k = "{"
       THEN [ok |-> ObjectEnd(text, 2) = Len(text), val |-> ObjectVal]
  ELSE IF text[1].k = "["
       THEN LET r == ParseItems(text, 2)
            IN [ok |-> r.ok, val |-> ArrayVal(r.items)]
  ELSE [ok |-> FALSE, val |-> NullVal]

\* ------------------------------------------------------------- storage
\* localStorage.getItem(key): null when the key is absent
Absent == [present |-> FALSE, text |-> <<>>]
Stored(text) == [present |-> TRUE, text |-> text]

\* a faulty variant: no try/catch: what JSON.parse leaves is returned as it is
LoadInitialStateNoCatch(stored) ==
  IF ~stored.present \/ stored.text = <<>> THEN ArrayVal(<<>>)
  ELSE JSONParse(stored.text).val

\* Load initial state safely
LoadInitialState(stored) ==
  IF ~stored.present \/ stored.text = <<>> THEN ArrayVal(<<>>)
  ELSE LET r == JSONParse(stored.text)
       IN IF r.ok THEN r.val ELSE ArrayVal(<<>>)

\* ---------------------------------------------------------------- numbers
NaN == [nan |-> TRUE, v |-> 0]
Num(v) == [nan |-> FALSE, v |-> v]

\* the longest prefix of s made of digits
RECURSIVE DigitPrefix(_)
DigitPrefix(s) ==
  IF s # <<>> /\ Head(s) \in Digits THEN <<Head(s)>> \o DigitPrefix(Tail(s)) ELSE <<>>

RECURSIVE DigitsValue(_)
DigitsValue(ds) ==
  IF ds = <<>> THEN 0 ELSE 10 * DigitsValue(SubSeq(ds, 1, Len(ds) - 1)) + DigitVal(ds[Len(ds)])

\* parseFloat(text): the number the longest numeric prefix denotes, NaN when
\* there is none (whole numbers only)
ParseFloat(text) ==
  LET neg == text # <<>> /\ Head(text) = "-"
      ds == DigitPrefix(IF neg THEN Tail(text) ELSE text)
  IN IF ds = <<>> THEN NaN
     ELSE Num(IF neg THEN 0 - DigitsValue(ds) ELSE DigitsValue(ds))

\* Number(text), the coercion isNaN applies: the whole text must be numeric,
\* and the empty text is 0
ToNumber(text) ==
  LET neg == text # <<>> /\ Head(text) = "-"
      body == IF neg THEN Tail(text) ELSE text
  IN IF text = <<>> THEN Num(0)
     ELSE IF body # <<>> /\ DigitPrefix(body) = body THEN ParseFloat(text)
     ELSE NaN

IsNaN(text) == ToNumber(text).nan

\* the digit whose value is d
DigitChar(d) == CHOOSE c \in Digits : DigitVal(c) = d

\* Number.prototype.toString() of a whole number
RECURSIVE NumberToString(_)
NumberToString(n) ==
  IF n < 0 THEN <<"-">> \o NumberToString(0 - n)
  ELSE IF n < 10 THEN <<DigitChar(n)>>
  ELSE NumberToString(n \div 10) \o <<DigitChar(n % 10)>>

\* ------------------------------------------------------------ the store
NoTxn == Txn(0, <<>>, 0, 0, UNDEF)
NoErrors == [desc |-> "", amount |-> "", category |-> ""]
AddAction(payload) == [type |-> "ADD", payload |-> payload, id |-> payload.id]
DeleteAction(id) == [type |-> "DELETE", payload |-> NoTxn, id |-> id]
\* an action type the reducer has no case for
OtherAction == [type |-> "RELOAD_STATE", payload |-> NoTxn, id |-> 0]

\* a faulty variant: ?? for ||: only a missing category is defaulted, not an empty one
ReducerAddNullish(state, payload) ==
  Append(state, [payload EXCEPT !.category = IF @ = UNDEF THEN CatOther ELSE @])

\* case "ADD"
ReducerAdd(state, payload) ==
  Append(state, [payload EXCEPT
    !.category = IF @ = UNDEF \/ @ = <<>> THEN CatOther ELSE @])

\* case "DELETE"
ReducerDelete(state, id) == SelectSeq(state, LAMBDA t : t.id # id)

\* the switch of transactionReducer: the new list
TransactionReducer(state, action) ==
  CASE action.type = "ADD" -> ReducerAdd(state, action.payload)
    [] action.type = "DELETE" -> ReducerDelete(state, action.id)
    [] OTHER -> state

\* a faulty variant: no try/catch: the error of setItem leaves the reducer
PersistNoCatch(stored, newState, written) ==
  [stored |-> IF written THEN Stored(JSONStringify(newState)) ELSE stored,
   error |-> ~written]

\* a faulty variant: the key is removed before it is set, so a failed write clears it
PersistRemovesFirst(stored, newState, written) ==
  [stored |-> IF written THEN Stored(JSONStringify(newState)) ELSE Absent,
   error |-> FALSE]

\* the try/catch around localStorage.setItem: the stored value afterwards,
\* and whether an error leaves the block; written is FALSE when setItem
\* throws (the quota is exceeded), which the catch logs
Persist(stored, newState, written) ==
  [stored |-> IF written THEN Stored(JSONStringify(newState)) ELSE stored,
   error |-> FALSE]

\* the elements of a list, as a set
Elems(items) == {items[i] : i \in 1..Len(items)}

\* ---------------------------------------------------------------- state
VARIABLES
  now,           \* the reading of the millisecond clock, Date.now()
  storage,       \* localStorage["transactions"], shared by the tabs
  transactions,  \* per tab: the state of useReducer
  pending,       \* per tab: a storage event is queued for its listener
  saved,         \* the state most recently loaded from or written to storage
  last,          \* what the most recent step did
  form,          \* AddTransaction of tab 1: desc, amount, category, errors
  budget,        \* BudgetSetting of tab 1: the text of the budget input
  isEditing,     \* BudgetSetting of tab 1: the input is open
  monthlyBudget, \* localStorage["monthlyBudget"]
  zone,          \* days the local calendar date is ahead of the UTC date
  view           \* what the components of tab 1 last rendered

\* the state of the components around the store
ui == <<form, budget, isEditing, monthlyBudget, zone, view>>

vars == <<now, storage, transactions, pending, saved, last, ui>>

\* op: the handler that ran; wrote: whether its setItem returned ("ok"), threw
\* ("fail") or was not reached ("none"); error: an error reached its caller;
\* payload: the action's payload; lost: the stored transactions its write
\* removed; behind: the tab's list was not the persisted one when it ran
Step(op, w, wrote, payload, lost, behind) ==
  [op |-> op, tab |-> w, wrote |-> wrote, error |-> FALSE, payload |-> payload,
   lost |-> lost, behind |-> behind]

\* the render that follows a state change throws on a state without filter
Crashed(w) == ~IsArray(transactions[w])

\* what may be under the key when the first tab opens
InitStored ==
  { Absent, Stored(<<>>), Stored(<<Tok("{")>>), Stored(<<Tok("null")>>),
    Stored(<<NumTok(5)>>), Stored(<<StrTok(CatFood)>>),
    Stored(<<Tok("{"), Tok("}")>>), Stored(<<Tok("["), Tok("]")>>) }

\* useState("") for desc and amount, useState("other"), useState({})
EmptyForm == [desc |-> <<>>, amount |-> <<>>, category |-> CatOther, errors |-> NoErrors]

\* nothing rendered yet
NoView == [kind |-> "none"]

\* the components of a fresh profile: no budget stored, UTC as local time
UiInit ==
  /\ form = EmptyForm
  /\ monthlyBudget = Absent
  /\ budget = <<>>
  /\ isEditing = TRUE
  /\ zone = 0
  /\ view = NoView

\* the stores of the tabs, loaded from what is under the key
StoreInit ==
  /\ now = 0
  /\ storage \in InitStored
  /\ transactions = [w \in Tabs |-> LoadInitialState(storage)]
  /\ pending = [w \in Tabs |-> FALSE]
  /\ saved = LoadInitialState(storage)
  /\ last = Step("LOAD", 1, "none", NoTxn, {}, FALSE)

Init == StoreInit /\ UiInit

\* the clock advances; nothing makes it advance between two handlers
Tick ==
  /\ now < MaxClock
  /\ now' = now + 1
  /\ last' = Step("TICK", 1, "none", NoTxn, {}, FALSE)
  /\ UNCHANGED <<storage, transactions, pending, saved, ui>>

\* the page of tab w is loaded again: the module runs loadInitialState
Reload(w) ==
  /\ transactions' = [transactions EXCEPT ![w] = LoadInitialState(storage)]
  /\ saved' = LoadInitialState(storage)
  /\ pending' = [pending EXCEPT ![w] = FALSE]
  /\ last' = Step("LOAD", w, "none", NoTxn, {}, FALSE)
  /\ UNCHANGED <<now, storage, ui>>

\* dispatch(action) in tab w: the reducer runs, persists and returns the
\* new state; were an error to leave it, the state would stay as it was
Dispatch(w, action, written) ==
  LET newState == TransactionReducer(transactions[w].items, action)
      p == Persist(storage, newState, written)
      before == LoadInitialState(storage)
      after == LoadInitialState(p.stored)
  IN /\ transactions' = [transactions EXCEPT
                           ![w] = IF p.error THEN @ ELSE ArrayVal(newState)]
     /\ storage' = p.stored
     /\ pending' = [t \in Tabs |->
                      IF t # w /\ p.stored # storage /\ ~Crashed(t) THEN TRUE ELSE pending[t]]
     /\ saved' = IF written THEN ArrayVal(newState) ELSE saved
     /\ last' = [Step(action.type, w, IF written THEN "ok" ELSE "fail",
                      IF action.type = "DELETE" THEN [NoTxn EXCEPT !.id = action.id]
                      ELSE action.payload,
                      IF p.stored # storage /\ IsArray(before) /\ IsArray(after)
                      THEN Elems(before.items) \ Elems(after.items) ELSE {},
                      transactions[w] # saved)
                 EXCEPT !.error = p.error]

\* ------------------------------------------------------------- the form
\* what the user may have typed into the description and amount fields
DescInputs == { <<>>, <<" ">>, <<" ", "a">>, <<"a", "b">>, <<" ", "a", "b", " ">> }
AmountInputs == { <<>>, <<"x">>, <<"0">>, <<"-", "5">>, <<"5">>, <<"5", "x">> }
\* the options of the category select (two of the nine)
Categories == { CatFood, CatOther }

\* new Date().toISOString().slice(0, 10): the UTC day of the clock reading
UTCDate(ms) == ms \div TicksPerDay

\* a faulty variant: any non-empty description passes
ValidateFormAnyLength(desc, amount, category) ==
  [desc |-> IF Trim(desc) = <<>> THEN "Description is required" ELSE "",
   amount |-> IF amount = <<>> THEN "Amount is required"
              ELSE IF IsNaN(amount) \/ (~ParseFloat(amount).nan /\ ParseFloat(amount).v <= 0)
                   THEN "Must be positive" ELSE "",
   category |-> IF category = <<>> THEN "Category required" ELSE ""]

\* validateForm: the message set for each field, "" for none
ValidateForm(desc, amount, category) ==
  [desc |-> IF Trim(desc) = <<>> THEN "Description is required"
            ELSE IF Len(Trim(desc)) < 2 THEN "Min. 2 characters" ELSE "",
   amount |-> IF amount = <<>> THEN "Amount is required"
              ELSE IF IsNaN(amount) \/ (~ParseFloat(amount).nan /\ ParseFloat(amount).v <= 0)
                   THEN "Must be positive" ELSE "",
   category |-> IF category = <<>> THEN "Category required" ELSE ""]

\* handleSubmit on these field values, up to the reset of the form
SubmitFields(w, desc, amount, category, written) ==
  /\ ~Crashed(w)
  /\ IF ValidateForm(desc, amount, category) # NoErrors
     THEN /\ last' = Step("SUBMIT", w, "none", NoTxn, {}, FALSE)
          /\ UNCHANGED <<now, storage, transactions, pending, saved>>
     ELSE /\ Len(transactions[w].items) < MaxLen
          /\ Dispatch(w, AddAction(Txn(now, Trim(desc), ParseFloat(amount).v,
                                       UTCDate(now), category)), written)
          /\ UNCHANGED now

\* the form of tab w is submitted with these field values
HandleSubmit(w, desc, amount, category, written) ==
  /\ SubmitFields(w, desc, amount, category, written)
  /\ UNCHANGED ui

\* the delete button of the row showing transaction id is clicked in tab w
HandleDelete(w, id, confirmed, written) ==
  /\ ~Crashed(w)
  /\ \E t \in Elems(transactions[w].items) : t.id = id
  /\ IF confirmed
     THEN Dispatch(w, DeleteAction(id), written) /\ UNCHANGED now
     ELSE /\ last' = Step("CANCEL", w, "none", NoTxn, {}, FALSE)
          /\ UNCHANGED <<now, storage, transactions, pending, saved>>
  /\ UNCHANGED ui

\* a faulty variant: the listener reloads the state, as its commented example does
StorageChangeReload(w) == LoadInitialState(storage)

\* what the storage listener makes of the tab's state: it only logs
StorageChangeState(w) == transactions[w]

\* the storage event queued for tab w reaches handleStorageChange
HandleStorageChange(w) ==
  /\ pending[w]
  /\ ~Crashed(w)
  /\ transactions' = [transactions EXCEPT ![w] = StorageChangeState(w)]
  /\ pending' = [pending EXCEPT ![w] = FALSE]
  /\ last' = Step("STORAGE_EVENT", w, "none", NoTxn, {}, FALSE)
  /\ UNCHANGED <<now, storage, saved, ui>>

Submit(w) ==
  \E desc \in DescInputs, amount \in AmountInputs, category \in Categories :
    \E written \in IF ValidateForm(desc, amount, category) = NoErrors
                    THEN BOOLEAN ELSE {TRUE} :
      HandleSubmit(w, desc, amount, category, written)

Delete(w) ==
  \E id \in 0..MaxClock, confirmed \in BOOLEAN, written \in BOOLEAN :
    HandleDelete(w, id, confirmed, written)

\* a session in one tab (tab 1)
Next ==
  \/ Tick
  \/ Reload(1)
  \/ Submit(1)
  \/ Delete(1)

Spec == Init /\ [][Next]_vars

\* ------------------------------------------------------------- two tabs
\* one valid form content, submitted in either tab
SubmitValid(w) == HandleSubmit(w, <<"a", "b">>, <<"5">>, CatFood, TRUE)

DeleteConfirmed(w) == \E id \in 0..MaxClock : HandleDelete(w, id, TRUE, TRUE)

\* two tabs opened on the same stored value, neither loaded again, every
\* write succeeding
NextTabs ==
  \/ Tick
  \/ \E w \in Tabs : SubmitValid(w)
  \/ \E w \in Tabs : DeleteConfirmed(w)
  \/ \E w \in Tabs : HandleStorageChange(w)

SpecTabs == Init /\ [][NextTabs]_vars

\* ---------------------------------------------------- the reducer alone
\* the drafts and actions a caller may dispatch: no validation at this layer
Payloads ==
  { Txn(id, <<"a", "b">>, 5, 0, c) : id \in {0, 1}, c \in {UNDEF, <<>>, CatFood} }
ReducerActions ==
  {AddAction(p) : p \in Payloads} \cup {DeleteAction(id) : id \in {0, 1, 2}}
    \cup {OtherAction}

\* any action is dispatched to the store of tab 1, every write succeeding
DispatchAny ==
  \E action \in ReducerActions :
    /\ ~Crashed(1)
    /\ action.type = "ADD" => Len(transactions[1].items) < MaxLen
    /\ Dispatch(1, action, TRUE)
    /\ UNCHANGED <<now, ui>>

NextReducer ==
  \/ DispatchAny
  \/ Reload(1)

SpecReducer == Init /\ [][NextReducer]_vars

\* ------------------------------------------------ the add form as state
\* onChange of the description, amount and category controls
SetDesc ==
  \E v \in DescInputs :
    /\ ~Crashed(1)
    /\ form' = [form EXCEPT !.desc = v]
    /\ last' = Step("INPUT", 1, "none", NoTxn, {}, FALSE)
    /\ UNCHANGED <<now, storage, transactions, pending, saved,
                   budget, isEditing, monthlyBudget, zone, view>>

SetAmount ==
  \E v \in AmountInputs :
    /\ ~Crashed(1)
    /\ form' = [form EXCEPT !.amount = v]
    /\ last' = Step("INPUT", 1, "none", NoTxn, {}, FALSE)
    /\ UNCHANGED <<now, storage, transactions, pending, saved,
                   budget, isEditing, monthlyBudget, zone, view>>

SetCategory ==
  \E v \in Categories :
    /\ ~Crashed(1)
    /\ form' = [form EXCEPT !.category = v]
    /\ last' = Step("INPUT", 1, "none", NoTxn, {}, FALSE)
    /\ UNCHANGED <<now, storage, transactions, pending, saved,
                   budget, isEditing, monthlyBudget, zone, view>>

\* handleSubmit on what the form holds: validateForm sets the messages,
\* and a submission that passes dispatches and resets the fields
SubmitForm ==
  \E written \in BOOLEAN :
    /\ SubmitFields(1, form.desc, form.amount, form.category, written)
    /\ form' = IF ValidateForm(form.desc, form.amount, form.category) = NoErrors
               THEN EmptyForm
               ELSE [form EXCEPT !.errors =
                       ValidateForm(form.desc, form.amount, form.category)]
    /\ UNCHANGED <<budget, isEditing, monthlyBudget, zone, view>>

\* a session at the add form of one tab, the clock standing still
NextForm == SetDesc \/ SetAmount \/ SetCategory \/ SubmitForm
SpecForm == Init /\ [][NextForm]_vars

\* ---------------------------------------------------- the budget widget
\* localStorage.getItem('monthlyBudget') || ''
StoredBudgetOrEmpty(stored) == IF stored.present THEN stored.text ELSE <<>>

\* localStorage.getItem('monthlyBudget') as a condition: a non-empty text
HasStoredBudget(stored) == stored.present /\ stored.text # <<>>

\* parseFloat(budget) || 0
BudgetNum(text) == IF ParseFloat(text).nan THEN 0 ELSE ParseFloat(text).v

\* the Edit Budget button is rendered
EditShown == ~isEditing /\ BudgetNum(budget) > 0

\* the budget input and its Save Budget button are rendered
InputShown == isEditing \/ ~HasStoredBudget(monthlyBudget)

\* what a number input can hold: nothing, or the text of a number
BudgetInputs == { <<>>, <<"0">>, <<"-", "5">>, <<"5">>, <<"0", "7">>, <<"8">> }

\* a faulty variant: the sign of the parsed value is not looked at
SaveBudgetAnySign(text, stored, editing, written) ==
  LET budgetValue == ParseFloat(text)
  IN IF ~budgetValue.nan
     THEN IF written
          THEN [monthlyBudget |-> Stored(NumberToString(budgetValue.v)),
                budget |-> text, isEditing |-> FALSE, wrote |-> "ok"]
          ELSE [monthlyBudget |-> stored, budget |-> text, isEditing |-> editing,
                wrote |-> "fail"]
     ELSE [monthlyBudget |-> stored, budget |-> StoredBudgetOrEmpty(stored),
           isEditing |-> editing, wrote |-> "none"]

\* handleSaveBudget: what it leaves of the stored budget, the input and the
\* editing flag; a setItem that throws ends the handler where it stands
SaveBudget(text, stored, editing, written) ==
  LET budgetValue == ParseFloat(text)
  IN IF ~budgetValue.nan /\ budgetValue.v >= 0
     THEN IF written
          THEN [monthlyBudget |-> Stored(NumberToString(budgetValue.v)),
                budget |-> text, isEditing |-> FALSE, wrote |-> "ok"]
          ELSE [monthlyBudget |-> stored, budget |-> text, isEditing |-> editing,
                wrote |-> "fail"]
     ELSE [monthlyBudget |-> stored, budget |-> StoredBudgetOrEmpty(stored),
           isEditing |-> editing, wrote |-> "none"]

\* onChange of the budget input
SetBudget ==
  \E v \in BudgetInputs :
    /\ ~Crashed(1) /\ InputShown
    /\ budget' = v
    /\ last' = Step("INPUT", 1, "none", NoTxn, {}, FALSE)
    /\ UNCHANGED <<now, storage, transactions, pending, saved,
                   form, isEditing, monthlyBudget, zone, view>>

\* a click on Save Budget
HandleSaveBudget ==
  \E written \in BOOLEAN :
    LET r == SaveBudget(budget, monthlyBudget, isEditing, written)
    IN /\ ~Crashed(1) /\ InputShown
       /\ written \/ r.wrote = "fail"
       /\ monthlyBudget' = r.monthlyBudget
       /\ budget' = r.budget
       /\ isEditing' = r.isEditing
       /\ last' = Step("SAVE_BUDGET", 1, r.wrote, NoTxn, {}, FALSE)
       /\ UNCHANGED <<now, storage, transactions, pending, saved, form, zone, view>>

\* a click on Edit Budget
HandleEditClick ==
  /\ ~Crashed(1) /\ EditShown
  /\ budget' = StoredBudgetOrEmpty(monthlyBudget)
  /\ isEditing' = TRUE
  /\ last' = Step("EDIT_BUDGET", 1, "none", NoTxn, {}, FALSE)
  /\ UNCHANGED <<now, storage, transactions, pending, saved,
                 form, monthlyBudget, zone, view>>

\* the page is loaded again: BudgetSetting mounts with its initial state
ReloadBudget ==
  /\ ~Crashed(1)
  /\ budget' = StoredBudgetOrEmpty(monthlyBudget)
  /\ isEditing' = ~HasStoredBudget(monthlyBudget)
  /\ last' = Step("LOAD", 1, "none", NoTxn, {}, FALSE)
  /\ UNCHANGED <<now, storage, transactions, pending, saved,
                 form, monthlyBudget, zone, view>>

\* a session at the budget widget of one tab
NextBudget == SetBudget \/ HandleSaveBudget \/ HandleEditClick \/ ReloadBudget
SpecBudget == Init /\ [][NextBudget]_vars

\* -------------------------------------------------------- the dashboard
\* the year and the month (from 1) in a date, as t.date.split('-') gives them
YearOf(date) == date \div (DaysPerMonth * MonthsPerYear)
MonthOf(date) == ((date \div DaysPerMonth) % MonthsPerYear) + 1

\* the calendar date of the local time at this clock reading, which
\* getMonth() and getFullYear() read: the UTC date, a day back or a day on
LocalDate(ms, z) == UTCDate(ms) + z
DayShifts == {0 - 1, 0, 1}

RECURSIVE SumAmounts(_)
SumAmounts(items) ==
  IF items = <<>> THEN 0 ELSE SumAmounts(SubSeq(items, 1, Len(items) - 1)) + items[Len(items)].amount

\* TodayExpenses: the transactions dated today (UTC)
TodayTransactions(items, ms) ==
  SelectSeq(items, LAMBDA t : t.date = UTCDate(ms))

\* MonthlyExpenses and BudgetSetting: those of the current local month
MonthlyTransactions(items, ms, z) ==
  SelectSeq(items, LAMBDA t : /\ MonthOf(t.date) = MonthOf(LocalDate(ms, z))
                              /\ YearOf(t.date) = YearOf(LocalDate(ms, z)))

\* a quotient n / d with d > 0, kept exact
Ratio(n, d) == [n |-> n, d |-> d]

\* (totalSpent / budgetNum) * 100 for a budgetNum other than 0
Percent(totalSpent, budgetNum) ==
  IF budgetNum > 0 THEN Ratio(totalSpent * 100, budgetNum)
  ELSE Ratio(0 - totalSpent * 100, 0 - budgetNum)

\* a faulty variant: the percentage is not clamped
PercentUsedUnclamped(totalSpent, budgetNum) ==
  IF budgetNum = 0 THEN Ratio(0, 1) ELSE Percent(totalSpent, budgetNum)

\* budgetNum ? Math.min(100, Math.max(0, (totalSpent / budgetNum) * 100)) : 0
PercentUsed(totalSpent, budgetNum) ==
  IF budgetNum = 0 THEN Ratio(0, 1)
  ELSE LET p == Percent(totalSpent, budgetNum)
       IN IF p.n < 0 THEN Ratio(0, 1)
          ELSE IF p.n > 100 * p.d THEN Ratio(100, 1)
          ELSE p

\* a faulty variant: the warning colour starts at 75
BarColourFrom75(percentUsed) ==
  IF percentUsed.n >= 100 * percentUsed.d THEN "bg-red-600"
  ELSE IF percentUsed.n >= 75 * percentUsed.d THEN "bg-yellow-500"
  ELSE "bg-green-600"

\* the colour class of the progress bar
BarColour(percentUsed) ==
  IF percentUsed.n >= 100 * percentUsed.d THEN "bg-red-600"
  ELSE IF percentUsed.n > 75 * percentUsed.d THEN "bg-yellow-500"
  ELSE "bg-green-600"

\* what TodayExpenses, MonthlyExpenses and BudgetSetting compute in a render
Dashboard(items, text, ms, z) ==
  LET totalSpent == SumAmounts(MonthlyTransactions(items, ms, z))
      budgetNum == BudgetNum(text)
      percentUsed == PercentUsed(totalSpent, budgetNum)
  IN [kind |-> "dashboard",
      todayTransactions |-> TodayTransactions(items, ms),
      todayTotal |-> SumAmounts(TodayTransactions(items, ms)),
      monthlyTransactions |-> MonthlyTransactions(items, ms, z),
      monthlyTotal |-> totalSpent,
      totalSpent |-> totalSpent,
      budgetNum |-> budgetNum,
      remaining |-> budgetNum - totalSpent,
      percentUsed |-> percentUsed,
      barColour |-> BarColour(percentUsed)]

\* the lists of at most n elements over a set
RECURSIVE ListsUpTo(_, _)
ListsUpTo(n, elems) ==
  IF n = 0 THEN {<<>>}
  ELSE LET shorter == ListsUpTo(n - 1, elems)
       IN shorter \cup {Append(l, e) : l \in {x \in shorter : Len(x) = n - 1}, e \in elems}

\* a transaction the form added on that date
DashTxn(amount, date) == Txn(date * TicksPerDay, <<"a", "b">>, amount, date, CatFood)

\* the last day of a month, the first of the next, and a year after
DashDates == {DaysPerMonth - 1, DaysPerMonth, DaysPerMonth * MonthsPerYear}
DashClock == {(DaysPerMonth - 1) * TicksPerDay, DaysPerMonth * TicksPerDay}
DashLists == ListsUpTo(MaxLen, {DashTxn(a, d) : a \in {2, 6}, d \in DashDates})

\* a tab opened on a stored list, in some time zone at some time, after a
\* budget text was typed and Save Budget clicked
InitDash ==
  /\ now \in DashClock
  /\ zone \in DayShifts
  /\ \E list \in DashLists :
       /\ storage = Stored(JSONStringify(list))
       /\ transactions = [w \in Tabs |-> ArrayVal(list)]
       /\ saved = ArrayVal(list)
  /\ pending = [w \in Tabs |-> FALSE]
  /\ last = Step("LOAD", 1, "none", NoTxn, {}, FALSE)
  /\ form = EmptyForm
  /\ \E text \in BudgetInputs, written \in BOOLEAN :
       LET r == SaveBudget(text, Absent, TRUE, written)
       IN /\ monthlyBudget = r.monthlyBudget
          /\ budget = r.budget
          /\ isEditing = r.isEditing
  /\ view = NoView

\* the components render
RenderDashboard ==
  /\ ~Crashed(1)
  /\ view' = Dashboard(transactions[1].items, budget, now, zone)
  /\ last' = Step("RENDER", 1, "none", NoTxn, {}, FALSE)
  /\ UNCHANGED <<now, storage, transactions, pending, saved,
                 form, budget, isEditing, monthlyBudget, zone>>

NextDash == RenderDashboard
SpecDash == InitDash /\ [][NextDash]_vars

\* ------------------------------------------------------ recent activity
\* new Date(date): the milliseconds at which that UTC day begins
DateMs(date) == date * TicksPerDay

\* (a, b) => new Date(b.date) - new Date(a.date) || b.id - a.id
CompareRecent(a, b) ==
  IF DateMs(b.date) - DateMs(a.date) # 0 THEN DateMs(b.date) - DateMs(a.date)
  ELSE b.id - a.id

\* x put into a sorted list behind everything that does not sort after it
RECURSIVE InsertSorted(_, _)
InsertSorted(sorted, x) ==
  IF sorted = <<>> THEN <<x>>
  ELSE IF CompareRecent(sorted[Len(sorted)], x) <= 0 THEN Append(sorted, x)
  ELSE Append(InsertSorted(SubSeq(sorted, 1, Len(sorted) - 1), x), sorted[Len(sorted)])

\* Array.prototype.sort with that comparator: a stable sort
RECURSIVE SortRecent(_)
SortRecent(items) ==
  IF items = <<>> THEN <<>>
  ELSE InsertSorted(SortRecent(SubSeq(items, 1, Len(items) - 1)), items[Len(items)])

\* .slice(0, 5)
RecentCount == 5
Slice(items, n) == SubSeq(items, 1, IF Len(items) < n THEN Len(items) ELSE n)

\* a faulty variant: the store's array itself is sorted
RecentTransactionsInPlace(items) ==
  [list |-> SortRecent(items), recent |-> Slice(SortRecent(items), RecentCount)]

\* RecentTransactions: the view, and the store's array after computing it
RecentTransactions(items) ==
  [list |-> items, recent |-> Slice(SortRecent(items), RecentCount)]

\* transactions of either id on either day
RecentLists ==
  ListsUpTo(MaxRecentLen,
            {Txn(id, <<"a", "b">>, 5, date, CatFood) : id \in {1, 2}, date \in {0, 1}})

\* a tab opened on a stored list
InitRecent ==
  /\ now = 0
  /\ \E list \in RecentLists :
       /\ storage = Stored(JSONStringify(list))
       /\ transactions = [w \in Tabs |-> ArrayVal(list)]
       /\ saved = ArrayVal(list)
  /\ pending = [w \in Tabs |-> FALSE]
  /\ last = Step("LOAD", 1, "none", NoTxn, {}, FALSE)
  /\ UiInit

\* RecentTransactions renders
RenderRecent ==
  LET r == RecentTransactions(transactions[1].items)
  IN /\ ~Crashed(1)
     /\ view' = [kind |-> "recent", recent |-> r.recent]
     /\ transactions' = [transactions EXCEPT ![1] = ArrayVal(r.list)]
     /\ last' = Step("RENDER", 1, "none", NoTxn, {}, FALSE)
     /\ UNCHANGED <<now, storage, pending, saved,
                    form, budget, isEditing, monthlyBudget, zone>>

NextRecent == RenderRecent
SpecRecent == InitRecent /\ [][NextRecent]_vars

\* ------------------------------------------------------------ the chart
\* t.category || 'other'
CategoryOrOther(t) == IF t.category = UNDEF \/ t.category = <<>> THEN CatOther ELSE t.category

\* acc[category] = (acc[category] || 0) + t.amount, the keys in the order
\* they were first set
RECURSIVE CategoryTotals(_)
CategoryTotals(items) ==
  IF items = <<>> THEN <<>>
  ELSE LET acc == CategoryTotals(SubSeq(items, 1, Len(items) - 1))
           t == items[Len(items)]
           at == {i \in DOMAIN acc : acc[i].category = CategoryOrOther(t)}
       IN IF at = {}
          THEN Append(acc, [category |-> CategoryOrOther(t), amount |-> t.amount])
          ELSE [i \in DOMAIN acc |->
                  IF i \in at THEN [acc[i] EXCEPT !.amount = @ + t.amount] ELSE acc[i]]

\* .sort(([, a], [, b]) => b - a): a stable sort, the larger amount first
RECURSIVE SortByAmount(_)
SortByAmount(entries) ==
  IF entries = <<>> THEN <<>>
  ELSE LET sorted == SortByAmount(SubSeq(entries, 1, Len(entries) - 1))
           e == entries[Len(entries)]
           before == {i \in DOMAIN sorted : sorted[i].amount >= e.amount}
           k == IF before = {} THEN 0
                ELSE CHOOSE i \in before : \A j \in before : j <= i
       IN SubSeq(sorted, 1, k) \o <<e>> \o SubSeq(sorted, k + 1, Len(sorted))

\* a faulty variant: the digits behind the first decimal are cut off
PercentageTruncated(amount, total) ==
  IF total = 0 THEN NaN ELSE Num((1000 * amount) \div total)

\* ((amount / total) * 100).toFixed(1), in tenths of a percent: the nearest
\* tenth, the larger of two equally near; not a number for a total of 0
Percentage(amount, total) ==
  IF total = 0 THEN NaN ELSE Num((2000 * amount + total) \div (2 * total))

\* category.charAt(0).toUpperCase() + category.slice(1)
Capitalise(category) ==
  IF category = <<>> THEN <<>>
  ELSE << CASE Head(category) = "f" -> "F" [] Head(category) = "h" -> "H"
            [] Head(category) = "o" -> "O" [] OTHER -> Head(category) >>
       \o Tail(category)

\* ExpenseChart: the placeholder for an empty list, else the sorted data
ExpenseChart(items) ==
  IF Len(items) = 0
  THEN [kind |-> "chart", noData |-> TRUE, total |-> 0, sortedData |-> <<>>]
  ELSE LET categoryTotals == CategoryTotals(items)
           total == SumAmounts(categoryTotals)
           sorted == SortByAmount(categoryTotals)
       IN [kind |-> "chart", noData |-> FALSE, total |-> total,
           sortedData |-> [i \in DOMAIN sorted |->
              [category |-> Capitalise(sorted[i].category),
               amount |-> sorted[i].amount,
               percentage |-> Percentage(sorted[i].amount, total)]]]

\* transactions as the form adds them, and some stored without a category
ChartLists ==
  ListsUpTo(MaxChartLen,
            {Txn(0, <<"a", "b">>, a, 0, c) : a \in {2, 3},
                                             c \in {CatFood, CatHealth, CatOther, UNDEF}})

\* a tab opened on a stored list
InitChart ==
  /\ now = 0
  /\ \E list \in ChartLists :
       /\ storage = Stored(JSONStringify(list))
       /\ transactions = [w \in Tabs |-> ArrayVal(list)]
       /\ saved = ArrayVal(list)
  /\ pending = [w \in Tabs |-> FALSE]
  /\ last = Step("LOAD", 1, "none", NoTxn, {}, FALSE)
  /\ UiInit

\* ExpenseChart renders
RenderChart ==
  /\ ~Crashed(1)
  /\ view' = ExpenseChart(transactions[1].items)
  /\ last' = Step("RENDER", 1, "none", NoTxn, {}, FALSE)
  /\ UNCHANGED <<now, storage, transactions, pending, saved,
                 form, budget, isEditing, monthlyBudget, zone>>

NextChart == RenderChart
SpecChart == InitChart /\ [][NextChart]_vars

\* =============================================================== claims
Items(w) == transactions[w].items

\* a draft the form of a tab would dispatch now, with category c
FormDraft(c) == Txn(now, <<"a", "b">>, 5, UTCDate(now), c)

\* C1: for the list L of a tab and a transaction t the form dispatches,
\* ADD t and then DELETE t.id give back L, element for element
C1_AddThenDeleteRestores ==
  \A w \in Tabs : IsArray(transactions[w]) =>
    \A c \in Categories :
      ReducerDelete(ReducerAdd(Items(w), FormDraft(c)), FormDraft(c).id) = Items(w)

\* C2: no two transactions of a tab's list have the same id
C2_NoDuplicateIds ==
  \A w \in Tabs : IsArray(transactions[w]) =>
    \A i, j \in 1..Len(Items(w)) : i # j => Items(w)[i].id # Items(w)[j].id

\* L without its element at index i
RemoveAt(L, i) == SubSeq(L, 1, i - 1) \o SubSeq(L, i + 1, Len(L))

\* C3: DELETE of an id removes exactly the one transaction carrying it, the
\* others keeping their order, and changes nothing when no transaction
\* carries it; the list shrinks by at most one
C3_DeleteRemovesExactlyOne ==
  \A w \in Tabs : IsArray(transactions[w]) =>
    \A id \in 0..MaxClock :
      LET L == Items(w)
          D == ReducerDelete(L, id)
      IN /\ Len(D) >= Len(L) - 1
         /\ (\A i \in 1..Len(L) : L[i].id # id) => D = L
         /\ (\E i \in 1..Len(L) : L[i].id = id) =>
              \E i \in 1..Len(L) : L[i].id = id /\ D = RemoveAt(L, i)

Mutation(step) == step.op \in {"ADD", "DELETE"}

\* C4: after an ADD or DELETE whose write succeeded, the stored value is the
\* serialization of the list the reducer returned, and loading it gives the
\* tab's list back, element for element
C4_StoredIsReturnedList ==
  (Mutation(last) /\ last.wrote = "ok") =>
    /\ storage = Stored(JSONStringify(Items(last.tab)))
    /\ LoadInitialState(storage) = transactions[last.tab]

\* C4 witness: a successful write of a non-empty list by a tab whose list
\* was ahead of storage, an earlier write of its own having failed
C4_Witness ==
  /\ Mutation(last) /\ last.wrote = "ok" /\ last.behind
  /\ Items(last.tab) # <<>>
  /\ LoadInitialState(storage) = transactions[last.tab]

\* C5: when the write of an ADD or DELETE fails, no error reaches the
\* caller, the tab's list is the mutated one and the stored value is as it was
C5_FailedWriteIsSwallowed ==
  [][(Mutation(last') /\ last'.wrote = "fail") =>
       LET w == last'.tab
           old == transactions[w].items
           new == transactions'[w].items
       IN /\ ~last'.error
          /\ storage' = storage
          /\ last'.op = "ADD" =>
               /\ Len(new) = Len(old) + 1
               /\ SubSeq(new, 1, Len(old)) = old
               /\ new[Len(new)].id = last'.payload.id
          /\ last'.op = "DELETE" =>
               /\ \A i \in 1..Len(new) : new[i].id # last'.payload.id
               /\ Elems(new) = {t \in Elems(old) : t.id # last'.payload.id}
               /\ Len(new) < Len(old)]_vars

\* C5 witness: a failed write has left the tab's list ahead of storage
C5_Witness ==
  /\ Mutation(last) /\ last.wrote = "fail" /\ ~last.error
  /\ IsArray(transactions[last.tab])
  /\ LoadInitialState(storage) # transactions[last.tab]

\* C6: loading with the key absent, or with text that does not parse, gives
\* the empty list, and the tab runs
C6_LoadYieldsEmptyList ==
  (last.op = "LOAD" /\ (~storage.present \/ ~JSONParse(storage.text).ok)) =>
    /\ transactions[last.tab] = ArrayVal(<<>>)
    /\ ~Crashed(last.tab)

\* C6 witness: a load of text that does not parse
C6_Witness ==
  /\ last.op = "LOAD"
  /\ storage.present /\ storage.text # <<>> /\ ~JSONParse(storage.text).ok
  /\ transactions[last.tab] = ArrayVal(<<>>)

\* C7: whatever is stored under the key, the state of every tab is a list
C7_StateIsAlwaysList == \A w \in Tabs : IsArray(transactions[w])

\* M is S, or S after one ADD, or S after one DELETE
DiffersByOneMutation(S, M) ==
  \/ M = S
  \/ Len(M) = Len(S) + 1 /\ SubSeq(M, 1, Len(S)) = S
  \/ \E id \in 0..MaxClock : M = SelectSeq(S, LAMBDA t : t.id # id)

\* C8 as claimed: what a reload would give differs from the list of tab 1
\* by at most its most recent mutation
C8_AtMostLastMutationLost ==
  (IsArray(transactions[1]) /\ IsArray(LoadInitialState(storage))) =>
    DiffersByOneMutation(LoadInitialState(storage).items, Items(1))

\* C8 as amended: a reload gives the list as it stood at the most recent
\* successful write (or load); every mutation since then is missing from it
C8_ReloadYieldsLastPersisted == LoadInitialState(storage) = saved

\* C8 witness: after failed writes a reload would lose more than one mutation
C8_Witness ==
  /\ Mutation(last) /\ last.wrote = "fail"
  /\ LoadInitialState(storage) = saved
  /\ IsArray(saved)
  /\ ~DiffersByOneMutation(saved.items, Items(1))

\* C9: the storage event leaves the list of the tab that receives it as it was
C9_StorageEventLeavesList ==
  [][last'.op = "STORAGE_EVENT" => transactions'[last'.tab] = transactions[last'.tab]]_vars

\* C9 witness: the ADD of tab 1, made after the storage events queued for it
\* were delivered, has removed from storage a transaction tab 2 holds and
\* had persisted
C9_Witness ==
  /\ last.op = "ADD" /\ last.tab = 1 /\ last.wrote = "ok"
  /\ ~pending[1]
  /\ last.lost \cap Elems(Items(2)) # {}
  /\ \A t \in last.lost : t \notin Elems(LoadInitialState(storage).items)

\* C10: ADD appends exactly one transaction at the end, the earlier elements
\* unchanged: the draft, with category other when the draft's is missing or
\* empty; so the appended category is never empty
C10_AddAppendsNormalised ==
  [][(last'.op = "ADD" /\ ~last'.error) =>
       LET w == last'.tab
           p == last'.payload
           x == [p EXCEPT !.category =
                   IF p.category = UNDEF \/ p.category = <<>> THEN CatOther ELSE p.category]
       IN /\ transactions'[w].items = Append(transactions[w].items, x)
          /\ x.category # UNDEF /\ x.category # <<>>]_vars

\* C10 witness: a draft without category was appended to a non-empty list
C10_Witness ==
  /\ last.op = "ADD" /\ last.payload.category = UNDEF
  /\ Len(Items(1)) >= 2
  /\ Items(1)[Len(Items(1))].category = CatOther

\* the field values the claim calls invalid
InvalidDraft(f) ==
  \/ Len(Trim(f.desc)) < 2
  \/ f.amount = <<>>
  \/ ToNumber(f.amount).nan
  \/ ToNumber(f.amount).v <= 0

\* C11: a step taken while the form holds a description shorter than 2
\* characters after trimming, or an amount that is empty, not a number or
\* not above 0, leaves the list and the storage as they were; and every
\* transaction the form has added has an amount above 0 and a trimmed
\* description of at least 2 characters.
C11_InvalidNeverDispatches ==
  [][ /\ InvalidDraft(form) =>
           /\ transactions' = transactions
           /\ storage' = storage
      /\ last'.op = "ADD" =>
           /\ last'.payload.amount > 0
           /\ Len(last'.payload.desc) >= 2
           /\ Trim(last'.payload.desc) = last'.payload.desc
           /\ Elems(transactions'[1].items) \subseteq
                Elems(transactions[1].items) \cup {last'.payload} ]_vars

\* a rejected submission has happened on a list that holds a transaction
C11_Witness ==
  /\ last.op = "SUBMIT"
  /\ InvalidDraft(form)
  /\ form.errors # NoErrors
  /\ IsArray(transactions[1]) /\ transactions[1].items # <<>>

\* a budget text the claim calls invalid: not a number, or a negative one
InvalidBudget(text) ==
  text = <<>> \/ ToNumber(text).nan \/ ToNumber(text).v < 0

\* C12: a Save Budget on an input that is not a number or is negative
\* leaves the stored monthlyBudget as it was and puts the stored value (or
\* the empty text) back into the input; and after any save attempt the
\* stored monthlyBudget is absent or the text of a number that is not
\* negative.
C12_InvalidBudgetRejected ==
  [][ last'.op = "SAVE_BUDGET" =>
        /\ InvalidBudget(budget) =>
              /\ monthlyBudget' = monthlyBudget
              /\ budget' = StoredBudgetOrEmpty(monthlyBudget)
        /\ monthlyBudget'.present =>
              /\ monthlyBudget'.text # <<>>
              /\ ~ToNumber(monthlyBudget'.text).nan
              /\ ToNumber(monthlyBudget'.text).v >= 0 ]_vars

\* a save was refused while a budget was stored, and the input shows it again
C12_Witness ==
  /\ last.op = "SAVE_BUDGET" /\ last.wrote = "none"
  /\ monthlyBudget.present
  /\ budget = monthlyBudget.text
  /\ isEditing

\* C18: in every state of the budget widget the user can still change the
\* budget: the input with its Save Budget button is shown, or the Edit
\* Budget button is.
C18_BudgetStaysChangeable == ~Crashed(1) => InputShown \/ EditShown

\* the transactions of the list dated in the local month of the render
InCurrentMonth(t) ==
  (t.date \div DaysPerMonth) = (LocalDate(now, zone) \div DaysPerMonth)

\* C13: for a budget that is not negative, remaining is the budget minus
\* the spend of the current month; percentUsed is spent / budget * 100
\* where that lies in [0, 100], 0 below and 100 above, and 0 for a budget of
\* 0; so percentUsed is always within [0, 100].
C13_BudgetStatus ==
  (view.kind = "dashboard" /\ view.budgetNum >= 0) =>
    LET spent == SumAmounts(SelectSeq(transactions[1].items, InCurrentMonth))
        p == view.percentUsed
    IN /\ view.totalSpent = spent
       /\ view.remaining = view.budgetNum - spent
       /\ p.d > 0 /\ 0 <= p.n /\ p.n <= 100 * p.d
       /\ view.budgetNum = 0 => p.n = 0
       /\ view.budgetNum > 0 =>
            /\ spent <= view.budgetNum => p.n * view.budgetNum = spent * 100 * p.d
            /\ spent > view.budgetNum => p.n = 100 * p.d

\* a budget of 8 with 12 spent this month: 4 over, shown as 100 percent
C13_Witness ==
  /\ view.kind = "dashboard"
  /\ view.budgetNum = 8 /\ view.totalSpent = 12
  /\ view.remaining = 0 - 4
  /\ view.percentUsed = Ratio(100, 1)

\* the progress bar is on screen: a budget is stored and the input is closed
BarShown == view.kind = "dashboard" /\ ~InputShown

\* C14 as stated: the bar is normal below 75 percent, warning from 75 up
\* to but not including 100, and over from 100; exactly 75 is warning.
C14_WarningFrom75 ==
  BarShown =>
    LET p == view.percentUsed
    IN /\ p.n < 75 * p.d => view.barColour = "bg-green-600"
       /\ (75 * p.d <= p.n /\ p.n < 100 * p.d) => view.barColour = "bg-yellow-500"
       /\ p.n >= 100 * p.d => view.barColour = "bg-red-600"

\* C14: the bar is normal up to and including 75 percent, warning above 75
\* and below 100, and over from 100; exactly 75 is normal.
C14_WarningAbove75 ==
  BarShown =>
    LET p == view.percentUsed
    IN /\ p.n <= 75 * p.d => view.barColour = "bg-green-600"
       /\ (75 * p.d < p.n /\ p.n < 100 * p.d) => view.barColour = "bg-yellow-500"
       /\ p.n >= 100 * p.d => view.barColour = "bg-red-600"

\* 6 spent of a budget of 8 is exactly 75 percent, and the bar is shown
C14_Witness ==
  /\ BarShown
  /\ view.totalSpent = 6 /\ view.budgetNum = 8
  /\ view.percentUsed.n = 75 * view.percentUsed.d
  /\ view.barColour = "bg-green-600"

\* C16: in a render, every transaction counted in today's total is counted
\* in the total of the current month and in the spent amount of the
\* budget, so today's total is not above either.
C16_TodayWithinMonth ==
  view.kind = "dashboard" =>
    /\ Elems(view.todayTransactions) \subseteq Elems(view.monthlyTransactions)
    /\ view.todayTotal <= view.monthlyTotal
    /\ view.todayTotal <= view.totalSpent

\* how often a transaction occurs in a list
Count(items, t) == Cardinality({i \in DOMAIN items : items[i] = t})

\* a is later than b: by date, then by id
Later(a, b) == a.date > b.date \/ (a.date = b.date /\ a.id > b.id)

\* C15: the recent-activity view holds min(5, length) transactions of the
\* list, ordered by date descending and, on equal dates, by id descending;
\* no transaction left out is later (by date, then id) than one it holds;
\* and computing it leaves the list of the store and its order as they were.
C15_RecentIsLatestFive ==
  [][ view'.kind = "recent" =>
        LET L == transactions[1].items
            R == view'.recent
        IN /\ transactions' = transactions
           /\ Len(R) = IF Len(L) < 5 THEN Len(L) ELSE 5
           /\ \A t \in Elems(R) : Count(R, t) <= Count(L, t)
           /\ \A i, j \in DOMAIN R : i < j => ~Later(R[j], R[i])
           /\ \A t \in Elems(L) :
                Count(L, t) > Count(R, t) => \A r \in Elems(R) : ~Later(t, r) ]_vars

\* six transactions, the oldest first in the list: five are shown, the
\* latest on top and the oldest left out
C15_Witness ==
  /\ view.kind = "recent"
  /\ Len(transactions[1].items) = 6
  /\ Len(view.recent) = 5
  /\ \A i \in 2..6 : Later(transactions[1].items[i], transactions[1].items[1])
  /\ Later(transactions[1].items[6], transactions[1].items[2])
  /\ Count(view.recent, transactions[1].items[1]) = 0
  /\ view.recent[1] = transactions[1].items[6]

RECURSIVE SumPercentages(_)
SumPercentages(data) ==
  IF data = <<>> THEN 0
  ELSE SumPercentages(SubSeq(data, 1, Len(data) - 1)) + data[Len(data)].percentage.v

\* C17: for a list that is not empty every percentage of the breakdown is
\* a number, the grand total is not 0, and the percentages, each rounded to
\* one decimal, add up to 100.0 within half a tenth for each category; for
\* the empty list the breakdown reports no data and holds no percentage.
C17_PercentagesSumTo100 ==
  view.kind = "chart" =>
    IF transactions[1].items = <<>>
    THEN view.noData /\ view.sortedData = <<>>
    ELSE /\ ~view.noData
         /\ view.total # 0
         /\ view.sortedData # <<>>
         /\ \A i \in DOMAIN view.sortedData : ~view.sortedData[i].percentage.nan
         /\ LET off == SumPercentages(view.sortedData) - 1000
            IN 2 * off <= Len(view.sortedData) /\ 0 - 2 * off <= Len(view.sortedData)

\* three categories of 3, 2 and 2: 42.9, 28.6 and 28.6 percent, 100.1 in all
C17_Witness ==
  /\ view.kind = "chart" /\ ~view.noData
  /\ Len(view.sortedData) = 3
  /\ view.total = 7
  /\ view.sortedData[1].percentage.v = 429
  /\ view.sortedData[2].percentage.v = 286
  /\ SumPercentages(view.sortedData) = 1001

====
